---------------------------- MODULE Spec2Model ----------------------------
(***************************************************************************)
(* Model of the FBL3N monthly-report data pipeline                         *)
(* (src/app/engine/processor.py, driven by controller.process_fbl3n_data). *)
(*                                                                         *)
(* Tables (pandas DataFrames) are sequences of records, one record per row.*)
(* A cell that may be missing (pd.NA / NaN) is a set: the empty set NA is  *)
(* the missing value and the singleton Some(v) a present one.  Text is a   *)
(* sequence of one-character strings so that the regular expression of     *)
(* compact_data can be evaluated character by character.  Amounts are      *)
(* whole currency units (integers).                                        *)
(***************************************************************************)
EXTENDS Integers, Sequences, FiniteSets, TLC

VARIABLES
    converted,   \* list of per-country tables handed to compact_data
    branches,    \* rows of the branches csv file
    head_offs,   \* rows of the head offices csv file
    pc,          \* "idle" | "exported" | "compacted" | "done" | "reported" | "compact_raised" | "assign_raised" | "report_raised"
    error,       \* the exception that ended the run, "none" otherwise
    compacted,   \* table returned by compact_data
    deductions,  \* column data["Deductions"] inside _aggregate_data
    aggregated,  \* table returned by _aggregate_data
    cust_data,   \* table returned by _load_customer_data
    renamed,     \* local `renamed` of assign_customers (returned iff pc = "done")
    \* processor.convert_data
    exp_data,    \* the exported text, a sequence of lines
    conv_pc,     \* "idle" | "called" | "returned" | "raised"
    conv_table,  \* the table returned by convert_data
    conv_error,  \* the exception convert_data ended in, "none" otherwise
    \* controller.export_fbl3n_data
    rules,        \* company codes of the active countries, in file order
    max_attempts, \* parameter max_attempts
    exp_pc,       \* "idle" | "start" | "for" | "while" | "convert" | "returned" | "raised"
    cocd_idx,     \* position in rules of the country of the for loop
    nth,          \* local nth, the attempt counter
    export_data,  \* local data: the text of the last export that returned
    result,       \* local result: the tables converted so far
    exp_error,    \* the exception export_fbl3n_data ended in, "none" otherwise
    calls,        \* the calls into fbl3n made so far, in order
    fbl3n_sess,   \* fbl3n._sess: "None", or "sess" while the transaction runs
    \* app.main
    main_pc,     \* position in main, "returned" or "escaped" at its end
    sess,        \* local sess: "unbound" until connect_to_sap returned
    pending,     \* the return statement waiting for the finally block
    exit_code,   \* the value main returned
    main_error,  \* the exception that left main, "none" otherwise
    raised_in,   \* the try statement an exception was caught in, "none" otherwise
    connects,    \* number of calls of connect_to_sap that returned
    disconnects, \* number of calls of disconnect_from_sap
    \* module fbl3n
    main_wnd,    \* fbl3n._main_wnd: "None", or the session whose main window it is
    stat_bar,    \* fbl3n._stat_bar: "None", or the session whose status bar it is
    open_tx,     \* the sessions in which an FBL3N transaction is running
    history      \* the calls of start, close and export made so far, in order

procVars == <<converted, branches, head_offs, pc, error, compacted, deductions,
              aggregated, cust_data, renamed>>

convVars == <<exp_data, conv_pc, conv_table, conv_error>>

exportVars == <<rules, max_attempts, exp_pc, cocd_idx, nth, export_data, result,
                exp_error, calls, fbl3n_sess>>

mainVars == <<main_pc, sess, pending, exit_code, main_error, raised_in, connects,
              disconnects>>

fblVars == <<main_wnd, stat_bar, open_tx, history>>

vars == <<procVars, convVars, exportVars, mainVars, fblVars>>

----------------------------------------------------------------------------
(* Generic helpers *)

NA == {}

Some(v) == {v}

IsNA(x) == x = NA

Get(x) == CHOOSE v \in x : TRUE

Range(s) == {s[i] : i \in DOMAIN s}

Abs(x) == IF x < 0 THEN -x ELSE x

RECURSIVE Flatten(_)
\* pd.concat(converted, axis = 0).reset_index(): the batches one after another
Flatten(list) ==
    IF list = <<>> THEN <<>> ELSE Head(list) \o Flatten(Tail(list))

RECURSIVE BitAnd(_, _)
\* the integer operator & on naturals
BitAnd(a, b) ==
    IF a = 0 \/ b = 0 THEN 0
    ELSE (a % 2) * (b % 2) + 2 * BitAnd(a \div 2, b \div 2)

BoolToInt(b) == IF b THEN 1 ELSE 0

UInt16Mod == 65536

----------------------------------------------------------------------------
(* compact_data: identifier extraction from the item text *)

Digits == {"0", "1", "2", "3", "4", "5", "6", "7", "8", "9"}

IsDigit(c) == c \in Digits

\* the character class [1,4] of the pattern: '1', ',' and '4'
InTokenClass(c) == c \in {"1", ",", "4"}

TokenTail == 6

\* r"\D+([1,4]\d{6})(?!\d)" matched at position i with \D+ taking k characters
MatchAt(t, i, k) ==
    /\ k >= 1
    /\ i + k + TokenTail <= Len(t)
    /\ \A j \in i .. (i + k - 1) : ~IsDigit(t[j])
    /\ InTokenClass(t[i + k])
    /\ \A j \in 1 .. TokenTail : IsDigit(t[i + k + j])
    /\ (i + k + TokenTail + 1 <= Len(t)) => ~IsDigit(t[i + k + TokenTail + 1])

MatchStarts(t, from) ==
    {i \in from .. Len(t) : \E k \in 1 .. Len(t) : MatchAt(t, i, k)}

Min(S) == CHOOSE x \in S : \A y \in S : x <= y

Max(S) == CHOOSE x \in S : \A y \in S : x >= y

RECURSIVE FindAllFrom(_, _)
\* re.findall scanning from position `from`: leftmost start, greedy \D+,
\* the captured group of each match, the scan resuming after the match
FindAllFrom(t, from) ==
    IF MatchStarts(t, from) = {} THEN <<>>
    ELSE LET i == Min(MatchStarts(t, from))
             k == Max({n \in 1 .. Len(t) : MatchAt(t, i, n)})
         IN  <<SubSeq(t, i + k, i + k + TokenTail)>>
                 \o FindAllFrom(t, i + k + TokenTail + 1)

FindAll(t) == FindAllFrom(t, 1)

DigitVal(c) == CHOOSE d \in 0 .. 9 : Digits \cap {c} = {ToString(d)}

RECURSIVE DecimalValue(_)
DecimalValue(tok) ==
    IF tok = <<>> THEN 0
    ELSE 10 * DecimalValue(SubSeq(tok, 1, Len(tok) - 1)) + DigitVal(tok[Len(tok)])

\* np.uint64(str) accepts a string of decimal digits only
IsNumericLiteral(tok) == \A j \in DOMAIN tok : IsDigit(tok[j])

\* data["Text"].fillna("")
FillNaText(x) == IF IsNA(x) THEN <<>> ELSE Get(x)

\* lambda x: np.uint64(x[0]) if len(x) >= 1 else pd.NA
FirstToken(found) ==
    IF Len(found) >= 1 THEN Some(DecimalValue(found[1])) ELSE NA

\* np.uint64(x[0]) raises ValueError for a captured group such as ",234567"
TokenConversionFails(text) ==
    LET found == FindAll(text)
    IN  Len(found) >= 1 /\ ~IsNumericLiteral(found[1])

ChequeAccount == 48505240

\* 48505240 & data["Customer_Number"].isna(): the operator & binds tighter
\* than !=, so the int is and-ed with the boolean column and cast to bool
SentinelAndIsNa(isna) == BitAnd(ChequeAccount, BoolToInt(isna)) # 0

\* data["Offsetting_Account"] != (48505240 & data["Customer_Number"].isna())
MissingCustAcc(offs, cust) == offs # BoolToInt(SentinelAndIsNa(IsNA(cust)))

\* astype("uint32") where the customer number exists: the account numbers
\* of the model are naturals below 2^31, which the cast leaves unchanged
CastUInt32(cust) == IF IsNA(cust) THEN NA ELSE Some(Get(cust))

CompactRow(r) ==
    LET text  == FillNaText(r.Text)
        found == FirstToken(FindAll(text))
        cust  == IF MissingCustAcc(r.Offsetting_Account, found)
                 THEN Some(r.Offsetting_Account)
                 ELSE found
    IN  [r EXCEPT !.Text = text] @@ [Customer_Number |-> CastUInt32(cust)]

CompactTable(list) ==
    LET data == Flatten(list)
    IN  [i \in DOMAIN data |-> CompactRow(data[i])]

----------------------------------------------------------------------------
(* _aggregate_data *)

BucketLabels == <<"under 30", "30 - 50", "over 50">>

Bins == <<0, 30, 50, 999999>>

\* pd.cut(x, bins = [0, 30, 50, 999999], right = True): the label of the
\* right-closed interval holding x, missing when x lies in none
Cut(x) ==
    LET hit == {j \in DOMAIN BucketLabels : Bins[j] < x /\ x <= Bins[j + 1]}
    IN  IF hit = {} THEN NA ELSE Some(BucketLabels[Get(hit)])

\* data["Customer_Number"].fillna(0)
FillNaZero(cust) == IF IsNA(cust) THEN 0 ELSE Get(cust)

\* data["Customer_Number"].fillna(0, inplace = True), seen on a whole table
FillNaInPlace(data) ==
    [i \in DOMAIN data |->
        [data[i] EXCEPT !.Customer_Number = Some(FillNaZero(@))]]

\* data = preprocessed: the aggregation edits the table of the caller
CallerTableAliased(preprocessed) == FillNaInPlace(preprocessed)

\* data = preprocessed.copy(): the in-place edits of the aggregation are
\* made on the copy, the table of the caller is what it was
CallerTableAfterAggregate(preprocessed) == preprocessed

\* the index of the pivot table
GroupKey(r) ==
    <<r.Company_Code, r.GL_Account, r.Year, r.Period,
      FillNaZero(r.Customer_Number), r.Currency>>

\* lexicographic order of the labels used as Company_Code and Currency
Alphabetical == <<"0075", "0076", "CHF", "EUR">>

Rank(s) == CHOOSE i \in DOMAIN Alphabetical : Alphabetical[i] = s

KeyRank(k) == <<Rank(k[1]), k[2], k[3], k[4], k[5], Rank(k[6])>>

RECURSIVE TupleLess(_, _)
TupleLess(a, b) ==
    /\ a # <<>>
    /\ \/ Head(a) < Head(b)
       \/ Head(a) = Head(b) /\ TupleLess(Tail(a), Tail(b))

KeyLess(k1, k2) == TupleLess(KeyRank(k1), KeyRank(k2))

RECURSIVE SortedKeys(_)
\* the grouping keys in the sorted order of the pivot index
SortedKeys(S) ==
    IF S = {} THEN <<>>
    ELSE LET m == CHOOSE k \in S : \A o \in S \ {k} : KeyLess(k, o)
         IN  <<m>> \o SortedKeys(S \ {m})

RECURSIVE SumAmounts(_, _)
\* aggfunc "Deductions_Total": lambda x: x.sum()
SumAmounts(data, S) ==
    IF S = {} THEN 0
    ELSE LET i == CHOOSE j \in S : TRUE
         IN  data[i].LC_Amount + SumAmounts(data, S \ {i})

\* data["Deductions"]: the bucket of every line item
DeductionsOf(data) == [i \in DOMAIN data |-> Cut(Abs(data[i].LC_Amount))]

\* rows that reach a group: groupby drops the rows whose Deductions is missing
Grouped(data) == {i \in DOMAIN data : ~IsNA(DeductionsOf(data)[i])}

\* the line items folded into one cell of the pivot table
Cell(data, k, b) ==
    {i \in Grouped(data) : GroupKey(data[i]) = k /\ DeductionsOf(data)[i] = Some(b)}

\* index of the pivot table: the keys that have a grouped row
PivotIndex(data) == {GroupKey(data[i]) : i \in Grouped(data)}

\* every category of Deductions becomes a column, occurring or not
PivotColumnsAllCategories(data) == BucketLabels

\* columns of the pivot table: unstack keeps only the categories of
\* Deductions that some grouped row carries (dropna = True)
PivotColumns(data) ==
    SelectSeq(BucketLabels, LAMBDA b : \E i \in Grouped(data) : DeductionsOf(data)[i] = Some(b))

\* astype("uint16")
CastUInt16(n) == n % UInt16Mod

StackedRow(data, k, b) ==
    [Company_Code     |-> k[1],
     GL_Account       |-> k[2],
     Year             |-> k[3],
     Period           |-> k[4],
     Customer_Number  |-> k[5],
     Currency         |-> k[6],
     Deductions       |-> b,
     Deductions_Count |-> CastUInt16(Cardinality(Cell(data, k, b))),
     Deductions_Total |-> SumAmounts(data, Cell(data, k, b))]

\* pivoted.stack().reset_index(): one row per (key, column), fill_value = 0
\* for the cells no line item falls into
AggregateData(data) ==
    LET keys == SortedKeys(PivotIndex(data))
        cols == PivotColumns(data)
    IN  Flatten([n \in DOMAIN keys |->
                    [c \in DOMAIN cols |-> StackedRow(data, keys[n], cols[c])]])

----------------------------------------------------------------------------
(* _load_customer_data and assign_customers *)

RECURSIVE SortedInts(_)
SortedInts(S) ==
    IF S = {} THEN <<>> ELSE <<Min(S)>> \o SortedInts(S \ {Min(S)})

MergedRow(b, h) ==
    [head_office   |-> IF IsNA(b) THEN Get(h).head_office ELSE Get(b).head_office,
     branch_number |-> IF IsNA(b) THEN NA ELSE Some(Get(b).branch_number),
     employee_id   |-> IF IsNA(b) THEN NA ELSE Some(Get(b).employee_id),
     Customer_Name |-> IF IsNA(b) THEN NA ELSE Some(Get(b).Customer_Name),
     country       |-> IF IsNA(h) THEN NA ELSE Some(Get(h).country),
     Company_Code  |-> IF IsNA(h) THEN NA ELSE Some(Get(h).Company_Code),
     type          |-> IF IsNA(h) THEN NA ELSE Some(Get(h).type)]

\* the rows of the outer join for one head_office key
MergedForKey(br, ho, key) ==
    LET b == SelectSeq(br, LAMBDA r : r.head_office = key)
        h == SelectSeq(ho, LAMBDA r : r.head_office = key)
    IN  IF h = <<>> THEN [i \in DOMAIN b |-> MergedRow(Some(b[i]), NA)]
        ELSE IF b = <<>> THEN [j \in DOMAIN h |-> MergedRow(NA, Some(h[j]))]
        ELSE [n \in 1 .. (Len(b) * Len(h)) |->
                 MergedRow(Some(b[((n - 1) \div Len(h)) + 1]),
                           Some(h[((n - 1) % Len(h)) + 1]))]

\* pd.merge(branches, head_offs, how = "outer", on = "head_office")
LoadCustomerData(br, ho) ==
    LET keys == SortedInts({r.head_office : r \in Range(br) \cup Range(ho)})
    IN  Flatten([n \in DOMAIN keys |-> MergedForKey(br, ho, keys[n])])

\* cust_data[["branch_number", "Customer_Name", "Company_Code"]].dropna(axis = 0)
BranchNames(cust) ==
    SelectSeq(cust, LAMBDA m : ~IsNA(m.branch_number) /\ ~IsNA(m.Customer_Name)
                                 /\ ~IsNA(m.Company_Code))

\* first merge: left join on (Customer_Number, Company_Code) =
\* (branch_number, Company_Code); Customer_Name_x is the branch-level name
JoinBranch(agg, cust) ==
    Flatten([i \in DOMAIN agg |->
        LET m == SelectSeq(BranchNames(cust),
                           LAMBDA r : r.branch_number = Some(agg[i].Customer_Number)
                                      /\ r.Company_Code = Some(agg[i].Company_Code))
        IN  IF m = <<>> THEN <<agg[i] @@ [Customer_Name_x |-> NA]>>
            ELSE [j \in DOMAIN m |-> agg[i] @@ [Customer_Name_x |-> m[j].Customer_Name]]])

RECURSIVE DropDuplicates(_)
\* DataFrame.drop_duplicates(): the first occurrence of every row is kept
DropDuplicates(s) ==
    IF s = <<>> THEN <<>>
    ELSE LET init == DropDuplicates(SubSeq(s, 1, Len(s) - 1))
             last == s[Len(s)]
         IN  IF last \in Range(init) THEN init ELSE Append(init, last)

\* cust_data[["head_office", "Customer_Name"]].drop_duplicates()
HeadOfficeNames(cust) ==
    DropDuplicates([i \in DOMAIN cust |->
        [head_office |-> cust[i].head_office, Customer_Name |-> cust[i].Customer_Name]])

\* second merge: left join on Customer_Number = head_office;
\* Customer_Name_y is the head-office name
JoinHeadOffice(upd, cust) ==
    Flatten([i \in DOMAIN upd |->
        LET m == SelectSeq(HeadOfficeNames(cust),
                           LAMBDA r : r.head_office = upd[i].Customer_Number)
        IN  IF m = <<>>
            THEN <<upd[i] @@ [head_office |-> NA, Customer_Name_y |-> NA]>>
            ELSE [j \in DOMAIN m |->
                     upd[i] @@ [head_office     |-> Some(m[j].head_office),
                                Customer_Name_y |-> m[j].Customer_Name]]])

\* the head-office name replaces the branch-level name
MergedNameHeadOfficeFirst(x, y) == IF IsNA(y) THEN x ELSE y

\* mask = Customer_Name_x.isna(); loc[mask, Customer_Name_x] = Customer_Name_y
MergedName(x, y) == IF IsNA(x) THEN y ELSE x

\* drop Customer_Name_y, rename Customer_Name_x to Customer_Name
RenamedRow(r) ==
    [Company_Code     |-> r.Company_Code,
     GL_Account       |-> r.GL_Account,
     Year             |-> r.Year,
     Period           |-> r.Period,
     Customer_Number  |-> r.Customer_Number,
     Currency         |-> r.Currency,
     Deductions       |-> r.Deductions,
     Deductions_Count |-> r.Deductions_Count,
     Deductions_Total |-> r.Deductions_Total,
     Customer_Name    |-> MergedName(r.Customer_Name_x, r.Customer_Name_y),
     head_office      |-> r.head_office]

ResolveNames(agg, cust) ==
    LET updated_hd_off == JoinHeadOffice(JoinBranch(agg, cust), cust)
    IN  [i \in DOMAIN updated_hd_off |-> RenamedRow(updated_hd_off[i])]

\* no table counts as empty
NeverEmpty(t) == FALSE

\* compacted.empty
Empty(t) == t = <<>>

\* the row counts are not compared
RowCountsUnchecked(agg, ren) == TRUE

\* assert aggregated.shape[0] == renamed.shape[0]
RowCountsEqual(agg, ren) == Len(agg) = Len(ren)

----------------------------------------------------------------------------
(* convert_data and _parse_amounts: from the exported text to a table *)

Letters ==
    {"A", "B", "C", "D", "E", "F", "G", "H", "I", "J", "K", "L", "M", "N", "O",
     "P", "Q", "R", "S", "T", "U", "V", "W", "X", "Y", "Z",
     "a", "b", "c", "d", "e", "f", "g", "h", "i", "j", "k", "l", "m", "n", "o",
     "p", "q", "r", "s", "t", "u", "v", "w", "x", "y", "z"}

\* \w
IsWordChar(c) == c \in Letters \cup Digits \cup {"_"}

\* \s: blank, tab and the newline between two lines of the text
IsSpace(c) == c \in {" ", "\t", "\n"}

CurrencyLen == 3

RECURSIVE Join(_)
\* the text of a sequence of lines, a newline between two lines
Join(ls) ==
    IF ls = <<>> THEN <<>>
    ELSE IF Len(ls) = 1 THEN ls[1]
    ELSE ls[1] \o <<"\n">> \o Join(Tail(ls))

\* r"^\|\s*\w{3}\s*\|.*\|$" at the start of the text t, itself the start of
\* a line: the position the match ends at, 0 when there is none.  \s* runs
\* over blanks and newlines up to the first field `a`, three word characters
\* wide, and on to the pipe `b`; .* stays on the line of that pipe, which
\* ends with a further pipe `e`.
MatchEnd(t) ==
    LET afterBar == {n \in 2 .. Len(t) : ~IsSpace(t[n])}
        a        == Min(afterBar)
        afterCur == {n \in (a + CurrencyLen) .. Len(t) : ~IsSpace(t[n])}
        b        == Min(afterCur)
        e        == Min({n \in b .. Len(t) : n = Len(t) \/ t[n + 1] = "\n"})
    IN  IF t = <<>> \/ t[1] # "|" \/ afterBar = {} THEN 0
        ELSE IF a + CurrencyLen - 1 > Len(t) THEN 0
        ELSE IF \E n \in a .. (a + CurrencyLen - 1) : ~IsWordChar(t[n]) THEN 0
        ELSE IF afterCur = {} \/ t[b] # "|" THEN 0
        ELSE IF e > b /\ t[e] = "|" THEN e
        ELSE 0

RECURSIVE MatchesFrom(_, _)
\* the matches that start at line i or later, each the lines it spans; the
\* search goes on behind the end of a match
MatchesFrom(exp, i) ==
    IF i > Len(exp) THEN <<>>
    ELSE LET t == Join(SubSeq(exp, i, Len(exp)))
             e == MatchEnd(t)
             k == Cardinality({n \in 1 .. e : t[n] = "\n"})
         IN  IF e = 0 THEN MatchesFrom(exp, i + 1)
             ELSE <<SubSeq(exp, i, i + k)>> \o MatchesFrom(exp, i + k + 1)

\* matches = re.findall(..., exp_data, re.M), in order
Matches(exp) == MatchesFrom(exp, 1)

\* re.sub(r"^\|", "", ...) and then re.sub(r"\|$", "", ...), flags = re.M, on
\* one line of the joined matches
StripPipes(l) ==
    LET opened == IF l # <<>> /\ l[1] = "|" THEN Tail(l) ELSE l
    IN  IF opened # <<>> /\ opened[Len(opened)] = "|"
        THEN SubSeq(opened, 1, Len(opened) - 1)
        ELSE opened

\* re.sub("\"", "", replaced)
RemoveQuotes(l) == SelectSeq(l, LAMBDA c : c # "\"")

\* the lines of `cleaned`
Cleaned(exp) ==
    LET raw == Flatten(Matches(exp))
    IN  [n \in DOMAIN raw |-> RemoveQuotes(StripPipes(raw[n]))]

RECURSIVE Split(_)
\* the fields of a line of the csv text, sep = "|"
Split(l) ==
    LET bars == {n \in DOMAIN l : l[n] = "|"}
    IN  IF bars = {} THEN <<l>>
        ELSE <<SubSeq(l, 1, Min(bars) - 1)>>
                 \o Split(SubSeq(l, Min(bars) + 1, Len(l)))

RECURSIVE Strip(_)
\* str.strip()
Strip(t) ==
    IF t = <<>> THEN t
    ELSE IF IsSpace(t[1]) THEN Strip(Tail(t))
    ELSE IF IsSpace(t[Len(t)]) THEN Strip(SubSeq(t, 1, Len(t) - 1))
    ELSE t

header ==
    <<"Currency", "Company_Code", "GL_Account", "Year", "Period",
      "Document_Type", "Offsetting_Account", "Offsetting_Account_Type",
      "LC_Amount", "Text">>

\* read_csv, skip_blank_lines: a line that is empty or holds only blanks and
\* tabs is no row
IsBlankLine(l) == \A n \in DOMAIN l : l[n] \in {" ", "\t"}

\* the rows read_csv tokenizes, each the sequence of its fields
CsvRows(exp) ==
    LET kept == SelectSeq(Cleaned(exp), LAMBDA l : ~IsBlankLine(l))
    IN  [n \in DOMAIN kept |-> Split(kept[n])]

\* the number of fields a row may have: that of the first row, and at least
\* one for every name
ExpectedFields(rows) ==
    IF rows = <<>> THEN Len(header) ELSE Max({Len(rows[1]), Len(header)})

\* read_csv raises ParserError on a row with more fields than expected
ReadCsvError(exp) ==
    IF \E n \in DOMAIN CsvRows(exp) :
           Len(CsvRows(exp)[n]) > ExpectedFields(CsvRows(exp))
    THEN "ParserError"
    ELSE "none"

\* the fields the first row has beyond the names: read_csv makes the
\* leading columns the index of the table
LeadingCols(rows) ==
    IF rows = <<>> THEN 0 ELSE Max({Len(rows[1]) - Len(header), 0})

\* the field texts read_csv reads as a missing value (its default na_values)
NaValues ==
    {<<>>,
     <<"#", "N", "/", "A">>,
     <<"#", "N", "/", "A", " ", "N", "/", "A">>,
     <<"#", "N", "A">>,
     <<"-", "1", ".", "#", "I", "N", "D">>,
     <<"-", "1", ".", "#", "Q", "N", "A", "N">>,
     <<"-", "N", "a", "N">>,
     <<"-", "n", "a", "n">>,
     <<"1", ".", "#", "I", "N", "D">>,
     <<"1", ".", "#", "Q", "N", "A", "N">>,
     <<"<", "N", "A", ">">>,
     <<"N", "/", "A">>,
     <<"N", "A">>,
     <<"N", "U", "L", "L">>,
     <<"N", "a", "N">>,
     <<"N", "o", "n", "e">>,
     <<"n", "/", "a">>,
     <<"n", "a", "n">>,
     <<"n", "u", "l", "l">>}

\* one row of pd.read_csv(sep = "|", names = header, dtype = "string") after
\* data[col].str.strip(): the fields behind the `lead` index columns; a
\* lacking field and a field that is one of the na_values are missing
ReadCsvRow(f, lead) ==
    [n \in DOMAIN header |->
        IF n + lead <= Len(f) /\ f[n + lead] \notin NaValues
        THEN Some(Strip(f[n + lead]))
        ELSE NA]

\* the string table before the conversion of its columns
StringTable(exp) ==
    LET rows == CsvRows(exp)
    IN  [i \in DOMAIN rows |-> ReadCsvRow(rows[i], LeadingCols(rows))]


\* position of a column in the table
Col(name) == CHOOSE n \in DOMAIN header : header[n] = name

\* str.replace(old, "", regex = False)
Remove(t, old) == SelectSeq(t, LAMBDA c : c # old)

\* str.replace(old, new, regex = False) for single characters
Replace(t, old, new) == [n \in DOMAIN t |-> IF t[n] = old THEN new ELSE t[n]]

\* str.endswith(c)
EndsWith(t, c) == t # <<>> /\ t[Len(t)] = c

\* the digits of a text, in order
DigitsOf(t) == SelectSeq(t, IsDigit)

SignChars == {"-", "+"}

\* a text without its leading sign
Unsigned(t) == IF t # <<>> /\ t[1] \in SignChars THEN Tail(t) ELSE t

\* a decimal number is a pair: the integer `mant` over 10 to the power of
\* `exp`, with no trailing zero in the fraction, so that equal numbers are
\* equal pairs (50.00 and 50 are both mant 50, exp 0)
RECURSIVE Decimal(_, _)
Decimal(mant, exp) ==
    IF exp > 0 /\ mant % 10 = 0 THEN Decimal(mant \div 10, exp - 1)
    ELSE [mant |-> mant, exp |-> exp]

UpperCase ==
    <<"A", "B", "C", "D", "E", "F", "G", "H", "I", "J", "K", "L", "M", "N", "O",
      "P", "Q", "R", "S", "T", "U", "V", "W", "X", "Y", "Z">>

LowerCase ==
    <<"a", "b", "c", "d", "e", "f", "g", "h", "i", "j", "k", "l", "m", "n", "o",
      "p", "q", "r", "s", "t", "u", "v", "w", "x", "y", "z">>

\* a text in lower case, as the comparison without case reads it
Lower(t) ==
    [n \in DOMAIN t |->
        IF t[n] \in Range(UpperCase)
        THEN LowerCase[CHOOSE k \in DOMAIN UpperCase : UpperCase[k] = t[n]]
        ELSE t[n]]

\* the text pd.to_numeric reads as not-a-number: the empty text
\* (convert_empty); it is handed no na_values, so the text nan is no
\* number to it
ReadsAsNaN(t) == t = <<>>

\* the texts pd.to_numeric reads as an infinity
ReadsAsInf(t) ==
    Lower(Unsigned(t)) \in {<<"i", "n", "f">>,
                            <<"i", "n", "f", "i", "n", "i", "t", "y">>}

\* the mantissa of the number text t without blanks and sign: what stands
\* before the first e or E
Mantissa(body) ==
    LET es == {n \in DOMAIN body : body[n] \in {"e", "E"}}
    IN  IF es = {} THEN body ELSE SubSeq(body, 1, Min(es) - 1)

\* its exponent: what stands behind the first e or E
Exponent(body) ==
    LET es == {n \in DOMAIN body : body[n] \in {"e", "E"}}
    IN  IF es = {} THEN <<>> ELSE SubSeq(body, Min(es) + 1, Len(body))

\* the texts pd.to_numeric reads as a finite number: blanks around it, an
\* optional sign, digits with at most one decimal point (one digit at
\* least), and an optional exponent of e, an optional sign and digits
IsDecimalLiteral(t) ==
    LET body == Unsigned(Strip(t))
        m    == Mantissa(body)
        x    == Exponent(body)
    IN  /\ DigitsOf(m) # <<>>
        /\ \A n \in DOMAIN m : IsDigit(m[n]) \/ m[n] = "."
        /\ Cardinality({n \in DOMAIN m : m[n] = "."}) <= 1
        /\ Len(m) < Len(body)
            => /\ Unsigned(x) # <<>>
               /\ \A n \in DOMAIN Unsigned(x) : IsDigit(Unsigned(x)[n])

RECURSIVE Pow10(_)
Pow10(n) == IF n = 0 THEN 1 ELSE 10 * Pow10(n - 1)

\* pd.to_numeric on a text it reads as a number: "inf" or "-inf", or the
\* decimal number of the mantissa with the point moved by the exponent
ToNumeric(t) ==
    LET core  == Strip(t)
        body  == Unsigned(core)
        m     == Mantissa(body)
        x     == Exponent(body)
        point == {n \in DOMAIN m : m[n] = "."}
        frac  == IF point = {} THEN 0 ELSE Len(m) - Min(point)
        mag   == DecimalValue(DigitsOf(m))
        e     == IF x # <<>> /\ x[1] = "-" THEN -DecimalValue(Unsigned(x))
                 ELSE DecimalValue(Unsigned(x))
        neg   == core # <<>> /\ core[1] = "-"
        mant  == IF neg THEN -mag ELSE mag
    IN  IF ReadsAsInf(core) THEN (IF neg THEN "-inf" ELSE "inf")
        ELSE IF frac >= e THEN Decimal(mant, frac - e)
        ELSE Decimal(mant * Pow10(e - frac), 0)

\* the sign is left where the export put it
SignLeftBehind(parsed) == parsed

\* the amount text as handed to pd.to_numeric: the sign is the first
\* character, every "-" of the text is taken out of the digits
SignedText(parsed) ==
    IF EndsWith(parsed, "-") THEN <<"-">> \o Remove(parsed, "-") ELSE parsed

\* the amount text after lines 28 - 29 of _parse_amounts
ParsedText(val) == SignedText(Replace(Remove(val, "."), ",", "."))

\* _parse_amounts on one value
ParseAmounts(val) == ToNumeric(ParsedText(val))

\* the texts int() reads: an optional sign and digits, with single
\* underscores allowed between two digits
IsIntLiteral(t) ==
    LET u == Unsigned(t)
    IN  /\ u # <<>>
        /\ \A n \in DOMAIN u : IsDigit(u[n]) \/ u[n] = "_"
        /\ IsDigit(u[1])
        /\ IsDigit(u[Len(u)])
        /\ \A n \in 1 .. Len(u) - 1 : ~(u[n] = "_" /\ u[n + 1] = "_")

\* the number int() reads: the digits without the underscores
IntValue(t) ==
    IF t[1] = "-" THEN -DecimalValue(DigitsOf(t)) ELSE DecimalValue(DigitsOf(t))

UInt8Mod == 256

\* astype("uint64") on a text: the numbers of the model are below 2^31 and
\* not negative, the cast keeps them
AsUInt64(t) == IntValue(t)

\* astype("uint16") on a text: the low 16 bits of the number read
AsUInt16(t) == IntValue(t) % UInt16Mod

\* astype("uint8") on a text: the low 8 bits of the number read
AsUInt8(t) == IntValue(t) % UInt8Mod


\* the columns cast to an unsigned integer type, in the order of the casts
IntColumns == <<"GL_Account", "Year", "Period", "Offsetting_Account">>

\* the cast of a field to an integer type raises: int() of a missing value
\* is a TypeError, of a text that is no number a ValueError
IntCastError(x) ==
    IF IsNA(x) THEN "TypeError"
    ELSE IF ~IsIntLiteral(Get(x)) THEN "ValueError"
    ELSE "none"

\* the amount is missing in the table returned: the field was missing, or
\* its text is empty
AmountMissing(x) == IsNA(x) \/ ReadsAsNaN(ParsedText(Get(x)))

\* pd.to_numeric raises on an amount text that is no number; a missing
\* amount stays missing
AmountError(x) ==
    IF \/ AmountMissing(x)
       \/ ReadsAsInf(ParsedText(Get(x)))
       \/ IsDecimalLiteral(ParsedText(Get(x)))
    THEN "none"
    ELSE "ValueError"

\* the conversions of lines 222 - 230 are made on whole columns: every row
\* of the table is converted
RowsConverted(table) == table

\* the exception of the first conversion that raises, "none" when none does:
\* the amounts first, then the integer columns in the order of the casts,
\* each column from its first row on
ConvertError(table) ==
    LET badAmount == {i \in DOMAIN table : AmountError(table[i][Col("LC_Amount")]) # "none"}
        badCols   == {n \in DOMAIN IntColumns :
                         \E i \in DOMAIN table :
                             IntCastError(table[i][Col(IntColumns[n])]) # "none"}
    IN  IF badAmount # {} THEN "ValueError"
        ELSE IF badCols = {} THEN "none"
        ELSE LET c == Col(IntColumns[Min(badCols)])
                 i == Min({n \in DOMAIN table : IntCastError(table[n][c]) # "none"})
             IN  IntCastError(table[i][c])

\* one row of the returned table: amounts are numbers, account, year and
\* period unsigned integers, the other columns keep their text
ConvertedRow(r) ==
    [n \in DOMAIN header |->
        IF header[n] = "LC_Amount"
        THEN (IF AmountMissing(r[n]) THEN NA ELSE Some(ParseAmounts(Get(r[n]))))
        ELSE IF header[n] \in {"GL_Account", "Offsetting_Account"} THEN AsUInt64(Get(r[n]))
        ELSE IF header[n] = "Year" THEN AsUInt16(Get(r[n]))
        ELSE IF header[n] = "Period" THEN AsUInt8(Get(r[n]))
        ELSE r[n]]

\* the table convert_data returns when no conversion raises
ConvertedTable(table) == [i \in DOMAIN table |-> ConvertedRow(table[i])]

----------------------------------------------------------------------------
(* Inputs: exported line items and the two customer files *)

MaxRows == 2

MaxAggRows == 3

TxtNoId == <<"n", "o", " ", "i", "d", " ", "h", "e", "r", "e">>

TxtId ==
    <<"A", "B", "C", " ", "1", "2", "3", "4", "5", "6", "7", " ", "n", "o", "t", "e">>

TxtTwoIds ==
    <<"x", "4", "0", "0", "1", "2", "3", "4", " ", "1", "2", "3", "4", "5", "6", "7">>

TxtComma == <<"R", "E", "F", ",", "2", "3", "4", "5", "6", "7">>

Texts == {NA, Some(TxtNoId), Some(TxtId), Some(TxtTwoIds), Some(TxtComma)}

OffsettingAccounts == {0, 999999, ChequeAccount}

Amounts == {0, 30, -50, 51, 1000000}

LineItem(text, offs, amount, cocd) ==
    [Currency                |-> "EUR",
     Company_Code            |-> cocd,
     GL_Account              |-> 66010030,
     Year                    |-> 2021,
     Period                  |-> 5,
     Document_Type           |-> "DZ",
     Offsetting_Account      |-> offs,
     Offsetting_Account_Type |-> "D",
     LC_Amount               |-> amount,
     Text                    |-> text]

\* line items that exercise the identifier extraction
ExtractRows == {LineItem(t, o, 30, "0075") : t \in Texts, o \in OffsettingAccounts}

\* line items that exercise the bucketing and the pivot
AggRows ==
    {LineItem(Some(TxtNoId), o, a, "0075") : o \in {0, 999999}, a \in Amounts}

\* line items that exercise the customer name resolution
ResolveRows ==
    {LineItem(t, o, 30, c) : t \in {Some(TxtNoId), Some(TxtId)},
                             o \in {0, 999999}, c \in {"0075", "0076"}}

SeqsUpTo(S, n) == UNION {[1 .. m -> S] : m \in 0 .. n}

\* a table exported as no batch, as one batch or cut into two batches
Batches(t) ==
    {<<>>, <<t>>} \cup {<<SubSeq(t, 1, k), SubSeq(t, k + 1, Len(t))>> : k \in 0 .. Len(t)}

Branch(ho, num, name) ==
    [head_office |-> ho, branch_number |-> num, employee_id |-> 7, Customer_Name |-> name]

HeadOffice(ho, cocd) ==
    [head_office |-> ho, country |-> "Austria", Company_Code |-> cocd, type |-> "HO"]

BranchPool ==
    <<Branch(999999, 1234567, "Alpha"),
      Branch(999999, 1234567, "Beta"),
      Branch(1234567, 999999, "Gamma")>>

HeadOfficePool == <<HeadOffice(999999, "0075"), HeadOffice(1234567, "0075")>>

\* the sub-sequences of a pool of file rows
FileContents(pool) ==
    {LET idx == SortedInts(S) IN [n \in DOMAIN idx |-> pool[idx[n]]] :
        S \in SUBSET DOMAIN pool}

DefaultBranches == <<BranchPool[1], BranchPool[3]>>

DefaultHeadOffices == HeadOfficePool

----------------------------------------------------------------------------
(* The parts of the program a specification does not run are at rest *)

\* process_fbl3n_data is not called
ProcessIdle ==
    /\ pc = "idle"
    /\ error = "none"
    /\ converted = <<>>
    /\ branches = <<>>
    /\ head_offs = <<>>
    /\ compacted = <<>>
    /\ deductions = <<>>
    /\ aggregated = <<>>
    /\ cust_data = <<>>
    /\ renamed = <<>>

\* convert_data is not called
ConvertIdle ==
    /\ conv_pc = "idle"
    /\ exp_data = <<>>
    /\ conv_table = <<>>
    /\ conv_error = "none"

\* export_fbl3n_data is not called
ExportIdle ==
    /\ exp_pc = "idle"
    /\ rules = <<>>
    /\ max_attempts = 0
    /\ cocd_idx = 0
    /\ nth = 0
    /\ export_data = NA
    /\ result = <<>>
    /\ exp_error = "none"
    /\ calls = <<>>
    /\ fbl3n_sess = "None"

\* the globals of fbl3n other than _sess after import, no procedure called
Fbl3nIdle ==
    /\ main_wnd = "None"
    /\ stat_bar = "None"
    /\ open_tx = {}
    /\ history = <<>>

\* main is not called
MainIdle ==
    /\ main_pc = "idle"
    /\ sess = "unbound"
    /\ pending = NA
    /\ exit_code = NA
    /\ main_error = "none"
    /\ raised_in = "none"
    /\ connects = 0
    /\ disconnects = 0

----------------------------------------------------------------------------
(* The state machine: controller.process_fbl3n_data *)

Init ==
    /\ pc = "exported"
    /\ error = "none"
    /\ compacted = <<>>
    /\ deductions = <<>>
    /\ aggregated = <<>>
    /\ cust_data = <<>>
    /\ renamed = <<>>
    /\ \/ /\ converted \in UNION {Batches(t) : t \in SeqsUpTo(ExtractRows, MaxRows)}
          /\ branches = DefaultBranches
          /\ head_offs = DefaultHeadOffices
       \/ /\ converted \in {<<t>> : t \in SeqsUpTo(AggRows, MaxAggRows)}
          /\ branches = DefaultBranches
          /\ head_offs = DefaultHeadOffices
       \/ /\ converted \in {<<t>> : t \in SeqsUpTo(ResolveRows, MaxRows)}
          /\ branches \in FileContents(BranchPool)
          /\ head_offs \in FileContents(HeadOfficePool)
    /\ ConvertIdle
    /\ ExportIdle
    /\ MainIdle
    /\ Fbl3nIdle

\* processor.compact_data(exported)
CompactData ==
    /\ pc = "exported"
    /\ IF Len(converted) = 0
       THEN \* raise ValueError("The input data contains no records!")
            /\ pc' = "compact_raised"
            /\ error' = "ValueError"
            /\ UNCHANGED compacted
       ELSE IF \E r \in Range(Flatten(converted)) : TokenConversionFails(FillNaText(r.Text))
       THEN \* np.uint64 raises ValueError: invalid literal
            /\ pc' = "compact_raised"
            /\ error' = "ValueError"
            /\ UNCHANGED compacted
       ELSE /\ pc' = "compacted"
            /\ compacted' = CompactTable(converted)
            /\ UNCHANGED error
    /\ UNCHANGED <<converted, branches, head_offs, deductions, aggregated,
                   cust_data, renamed>>
    /\ UNCHANGED <<convVars, exportVars, mainVars, fblVars>>

\* processor.assign_customers(compacted, branches_path, head_offices_path)
AssignCustomers ==
    /\ pc = "compacted"
    /\ Empty(compacted) \/ Grouped(compacted) # {}
    /\ IF Empty(compacted)
       THEN \* raise ValueError("Input data contains no records!")
            /\ pc' = "assign_raised"
            /\ error' = "ValueError"
            /\ UNCHANGED <<compacted, deductions, aggregated, cust_data, renamed>>
       ELSE /\ compacted' = CallerTableAfterAggregate(compacted)
            /\ deductions' = DeductionsOf(compacted)
            /\ aggregated' = AggregateData(compacted)
            /\ cust_data' = LoadCustomerData(branches, head_offs)
            /\ renamed' = ResolveNames(aggregated', cust_data')
            /\ IF RowCountsEqual(aggregated', renamed')
               THEN pc' = "done" /\ UNCHANGED error
               ELSE pc' = "assign_raised" /\ error' = "AssertionError"
    /\ UNCHANGED <<converted, branches, head_offs>>
    /\ UNCHANGED <<convVars, exportVars, mainVars, fblVars>>

\* assign_customers on a table none of whose amounts lies in a bin: every
\* row is dropped by the groupby and the pivot table is empty.  What pandas
\* makes of an empty pivot depends on its version: the empty table goes
\* through the joins, or the reshaping raises.
AssignCustomersEmptyPivot ==
    /\ pc = "compacted"
    /\ ~Empty(compacted)
    /\ Grouped(compacted) = {}
    /\ compacted' = CallerTableAfterAggregate(compacted)
    /\ deductions' = DeductionsOf(compacted)
    /\ \/ /\ aggregated' = AggregateData(compacted)
          /\ cust_data' = LoadCustomerData(branches, head_offs)
          /\ renamed' = ResolveNames(aggregated', cust_data')
          /\ pc' = "done"
          /\ UNCHANGED error
       \/ /\ pc' = "assign_raised"
          /\ error' = "PivotError"
          /\ UNCHANGED <<aggregated, cust_data, renamed>>
    /\ UNCHANGED <<converted, branches, head_offs>>
    /\ UNCHANGED <<convVars, exportVars, mainVars, fblVars>>

\* processed.loc[processed["Customer_Number"] == 0, "Customer_Number"] = pd.NA
\* on the table assign_customers returned, whose customer numbers are
\* numbers: the table object is the caller's, changed in place
BlankProcessed(table) ==
    [i \in DOMAIN table |->
        [table[i] EXCEPT !.Customer_Number = IF @ = 0 THEN NA ELSE @]]

\* exported.loc[exported["Customer_Number"] == 0, "Customer_Number"] = pd.NA
\* on the table compact_data returned, whose customer numbers may be
\* missing already
BlankExported(table) ==
    [i \in DOMAIN table |->
        [table[i] EXCEPT !.Customer_Number = IF @ = Some(0) THEN NA ELSE @]]

\* controller.report_output(temp_dir, pivot_path, compacted, updated, cfg):
\* report.generate_excel_report raises ValueError on an empty table;
\* otherwise it blanks the customer number 0 in both tables and writes the
\* workbook, which can fail as any writing of files can
ReportOutputTables ==
    /\ pc = "done"
    /\ IF Empty(renamed) \/ Empty(compacted)
       THEN /\ pc' = "report_raised"
            /\ error' = "ValueError"
            /\ UNCHANGED <<compacted, renamed>>
       ELSE /\ renamed' = BlankProcessed(renamed)
            /\ compacted' = BlankExported(compacted)
            /\ \/ pc' = "reported" /\ UNCHANGED error
               \/ pc' = "report_raised" /\ error' = "OSError"
    /\ UNCHANGED <<converted, branches, head_offs, deductions, aggregated,
                   cust_data>>
    /\ UNCHANGED <<convVars, exportVars, mainVars, fblVars>>

Next ==
    \/ CompactData
    \/ AssignCustomers
    \/ AssignCustomersEmptyPivot
    \/ ReportOutputTables

Spec == Init /\ [][Next]_vars

----------------------------------------------------------------------------
(* Inputs of convert_data: lines of an exported text *)

MaxLines == 2

FldCurrency == <<" ", "E", "U", "R">>

FldCompany == <<"0", "0", "7", "5">>

GlOk == <<"6", "6", "0", "1", "0", "0", "3", "0">>

GlBad == <<"6", "6", "A", "1", "0", "0", "3", "0">>

YearOk == <<"2", "0", "2", "1">>

YearBad == <<"2", "0", "x", "1">>

PeriodOk == <<" ", " ", "5">>

PeriodBad == <<" ", "5", "a">>

FldDocType == <<"D", "Z">>

FldOffsetting == <<"9", "9", "9", "9", "9", "9", " ">>

FldOffsType == <<"D">>

AmtThousands == <<" ", " ", "1", ".", "2", "3", "4", ",", "5", "6">>

AmtNegative == <<" ", " ", " ", "5", "0", ",", "0", "0", "-">>

AmtZero == <<" ", " ", " ", " ", " ", "0", ",", "0", "0">>

AmtBad == <<" ", " ", " ", " ", "1", "2", ",", "5", "x">>

FldText == <<"s", "a", "y", " ", "\"", "4", "0", "0", "1", "2", "3", "4", "\"", " ">>

RECURSIVE JoinFields(_)
\* the fields of a line between pipes
JoinFields(f) ==
    IF f = <<>> THEN <<"|">> ELSE <<"|">> \o Head(f) \o JoinFields(Tail(f))

\* a line of the list the transaction writes, in the layout of `header`
ExportLine(gl, year, period, amount) ==
    JoinFields(<<FldCurrency, FldCompany, gl, year, period, FldDocType,
                 FldOffsetting, FldOffsType, amount, FldText>>)

\* the line of column titles: its first field is not three characters wide
TitleLine == <<"|", "C", "r", "c", "y", "|", "C", "o", "C", "d", "|", "G", "/", "L", " ", "A", "c", "c", "t", "|", "Y", "e", "a", "r", "|">>

\* an amount field of blanks only
AmtBlank == <<" ", " ", " ", " ", " ", " ", " ", " ", " ">>

\* the text nan where the amount stands, padded as the export pads it
AmtNan == <<" ", " ", " ", " ", " ", " ", "n", "a", "n">>

\* a year with an underscore between its digits
YearUnderscore == <<"2", "0", "_", "2", "1">>

\* an amount in exponent notation
AmtExponent == <<" ", " ", " ", " ", " ", " ", "1", "e", "5">>

\* a document type that is one of the na_values of read_csv
DocTypeNA == <<"N", "A">>

\* a text with a pipe typed into it
TextWithPipe == <<"a", "|", "b">>

\* a line with a field of its own for every argument
ExportLineOf(doctype, amount, text) ==
    JoinFields(<<FldCurrency, FldCompany, GlOk, YearOk, PeriodOk, doctype,
                 FldOffsetting, FldOffsType, amount, text>>)

\* a line broken behind its first pipe, and the rest of it on the next line
OpenLine == <<"|", " ">>

ContinuedLine == Tail(ExportLine(GlOk, YearOk, PeriodOk, AmtNegative))

ExportLines ==
    {ExportLine(GlOk, YearOk, PeriodOk, a) :
        a \in {AmtThousands, AmtNegative, AmtZero, AmtBad}}
    \cup {ExportLine(GlBad, YearOk, PeriodOk, AmtNegative),
          ExportLine(GlOk, YearBad, PeriodOk, AmtNegative),
          ExportLine(GlOk, YearOk, PeriodBad, AmtNegative),
          TitleLine}
    \cup {ExportLineOf(FldDocType, AmtBlank, FldText),
          ExportLineOf(FldDocType, AmtExponent, FldText),
          ExportLineOf(DocTypeNA, AmtNegative, FldText),
          ExportLineOf(FldDocType, AmtNegative, TextWithPipe),
          OpenLine,
          ContinuedLine,
          ExportLine(GlOk, YearUnderscore, PeriodOk, AmtNegative),
          ExportLineOf(FldDocType, AmtNan, FldText)}

----------------------------------------------------------------------------
(* The state machine: processor.convert_data *)

InitConvert ==
    /\ conv_pc = "called"
    /\ exp_data \in SeqsUpTo(ExportLines, MaxLines)
    /\ conv_table = <<>>
    /\ conv_error = "none"
    /\ ProcessIdle
    /\ ExportIdle
    /\ MainIdle
    /\ Fbl3nIdle

\* processor.convert_data(exp_data)
ConvertData ==
    /\ conv_pc = "called"
    /\ LET table == RowsConverted(StringTable(exp_data))
           exc   == IF ReadCsvError(exp_data) # "none" THEN ReadCsvError(exp_data)
                    ELSE ConvertError(table)
       IN  IF exc # "none"
           THEN /\ conv_pc' = "raised"
                /\ conv_error' = exc
                /\ UNCHANGED conv_table
           ELSE /\ conv_pc' = "returned"
                /\ conv_table' = ConvertedTable(table)
                /\ UNCHANGED conv_error
    /\ UNCHANGED <<exp_data, procVars, exportVars, mainVars, fblVars>>

NextConvert == ConvertData

SpecConvert == InitConvert /\ [][NextConvert]_vars

----------------------------------------------------------------------------
(* The state machine: controller.export_fbl3n_data *)

MaxCountries == 2

MaxAttempts == 3

\* company codes of the rules file
CompanyCodes == <<"0075", "0076", "0077", "0078">>

\* the rules of the first n countries
ActiveRules(n) == SubSeq(CompanyCodes, 1, n)

\* an exported text that converts, and one with an amount that is no number
ExportTexts ==
    {<<TitleLine, ExportLine(GlOk, YearOk, PeriodOk, AmtNegative)>>,
     <<ExportLine(GlOk, YearOk, PeriodOk, AmtBad)>>}

\* the exceptions fbl3n.export ends in
ExportExceptions ==
    {"SapConnectionLostError", "DataExportError", "NoItemsFoundWarning",
     "FolderNotFoundError"}

\* an entry of the record of calls
Call(fn, by, cocd, outcome, arg) ==
    [fn |-> fn, by |-> by, cocd |-> cocd, outcome |-> outcome, data |-> arg]

\* the calls of fbl3n.export for a country made so far
ExportsOf(c) == SelectSeq(calls, LAMBDA e : e.fn = "export" /\ e.cocd = c)

\* every exception is handled by another attempt
AnyRetried(exc) == TRUE

\* except fbl3n.SapConnectionLostError: the one exception that is handled
\* by another attempt
Retried(exc) == exc = "SapConnectionLostError"

\* the counter is left as the failed attempts set it
KeepCount(n) == n

\* else: nth = 0
NthAfterSuccess(n) == 0

\* if nth != 0: raise RuntimeError(...), else on to the conversion
AfterLoop(n) == IF n # 0 THEN "raised" ELSE "convert"

AfterLoopError(n) == IF n # 0 THEN "RuntimeError" ELSE "none"

\* ---- module fbl3n: the globals and the procedures start, close, export

\* the SAP GUI sessions a caller can hand to start
Sessions == {"sess", "sess2"}

\* the exception a failing call of the SAP GUI scripting interface raises
ComError == "com_error"

\* the globals _sess, _main_wnd and _stat_bar, and the sessions in which
\* FBL3N is running
Module(s, w, b, o) == [sess |-> s, main_wnd |-> w, stat_bar |-> b, open_tx |-> o]

\* the end of a call: the globals it leaves, "ok" or the exception it
\* raised, and whether it called into SAP
Done(m, outcome, drove) == [m |-> m, outcome |-> outcome, drove |-> drove]

\* if _sess is None: raise UninitializedModuleError
CheckPrerequisities(m) ==
    IF m.sess = "None" THEN "UninitializedModuleError" ELSE "none"

\* the calls into SAP made by close, each of which can raise
CloseFaults == {"EndTransaction", "ActiveWindow"}

\* what SAP shows after the transaction ended: no dialog, an "Information"
\* dialog, or a dialog with the buttons Yes and No
Popups == {"none", "Information", "YesNo"}

\* close(): returns at once when _sess is None; otherwise ends the
\* transaction, answers a popup dialog and resets the globals.  A call into
\* SAP that raises leaves the globals as they are; `effect` tells whether
\* the failing EndTransaction ended the transaction all the same.  The
\* "Information" dialog is confirmed by _press_key through _main_wnd, an
\* AttributeError when _main_wnd is None.
close(m, fault, effect, popup) ==
    IF m.sess = "None"
    THEN Done(m, "ok", FALSE)
    ELSE IF fault = "EndTransaction"
    THEN Done([m EXCEPT !.open_tx = IF effect THEN @ \ {m.sess} ELSE @],
              ComError, TRUE)
    ELSE IF fault = "ActiveWindow"
    THEN Done([m EXCEPT !.open_tx = @ \ {m.sess}], ComError, TRUE)
    ELSE IF popup = "Information" /\ m.main_wnd = "None"
    THEN Done([m EXCEPT !.open_tx = @ \ {m.sess}], "AttributeError", TRUE)
    ELSE Done(Module("None", "None", "None", m.open_tx \ {m.sess}), "ok", TRUE)

\* the calls into SAP made by start after close(), each of which can raise
StartFaults == {"findById(wnd[0])", "findById(sbar)", "startTransaction"}

\* start(sess): raises UnboundLocalError for sess None; otherwise close(),
\* then _sess = sess, _main_wnd, _stat_bar, and startTransaction("FBL3N").
\* The globals assigned before a call into SAP raises stay assigned.
start(m, s, fault, effect, popup) ==
    IF s = "None"
    THEN Done(m, "UnboundLocalError", FALSE)
    ELSE LET closed == close(m, fault, effect, popup)
             c      == closed.m
         IN  IF closed.outcome # "ok"
             THEN closed
             ELSE IF fault = "findById(wnd[0])"
             THEN Done([c EXCEPT !.sess = s], ComError, TRUE)
             ELSE IF fault = "findById(sbar)"
             THEN Done([c EXCEPT !.sess = s, !.main_wnd = s], ComError, TRUE)
             ELSE IF fault = "startTransaction"
             THEN Done(Module(s, s, s, IF effect THEN c.open_tx \cup {s}
                                                 ELSE c.open_tx),
                       ComError, TRUE)
             ELSE Done(Module(s, s, s, c.open_tx \cup {s}), "ok", TRUE)

\* the ways export ends once it is past _check_prerequisities
ExportOutcomes == {"ok", ComError} \cup ExportExceptions

\* export(...): _check_prerequisities(), then the selection mask is filled
\* in through _main_wnd, the items are loaded and _stat_bar.Text is read
\* inside try/except Exception.  It assigns no global.
export(m, outcome) ==
    IF CheckPrerequisities(m) # "none"
    THEN Done(m, CheckPrerequisities(m), FALSE)
    ELSE IF m.main_wnd = "None"
    THEN Done(m, "AttributeError", FALSE)
    ELSE IF outcome = ComError \/ m.sess \notin m.open_tx
    THEN Done(m, ComError, TRUE)
    ELSE IF m.stat_bar = "None"
    THEN Done(m, "SapConnectionLostError", TRUE)
    ELSE Done(m, outcome, TRUE)

\* the module as the variables hold it
Current == Module(fbl3n_sess, main_wnd, stat_bar, open_tx)

InitExport ==
    /\ exp_pc = "start"
    /\ rules \in {ActiveRules(n) : n \in 0 .. MaxCountries}
    /\ max_attempts \in 0 .. MaxAttempts
    /\ cocd_idx = 0
    /\ nth = 0
    /\ export_data = NA
    /\ result = <<>>
    /\ exp_error = "none"
    /\ calls = <<>>
    /\ fbl3n_sess = "None"
    /\ ProcessIdle
    /\ ConvertIdle
    /\ MainIdle
    /\ Fbl3nIdle

\* the session handed to export_fbl3n_data: the one main got from
\* connect_to_sap, or any argument when the function is called on its own
SessArgs == IF main_pc = "idle" THEN {"sess", "None"} ELSE {sess}

\* the calls recorded for fbl3n.start(s): start itself and, for a session
\* that is not None, the close() made inside it
StartCalls(s, done, closed) ==
    <<Call("start", "export_fbl3n_data", "", done.outcome, NA)>>
        \o (IF s = "None" THEN <<>>
            ELSE <<Call("close", "start", "", closed.outcome, NA)>>)

\* fbl3n.start(sess) and, when it returned, result = []: start closes a
\* running transaction and starts FBL3N; an exception of start leaves
\* export_fbl3n_data
StartFbl3n ==
    /\ exp_pc = "start"
    /\ main_pc \in {"idle", "export"}
    /\ \E s \in SessArgs :
       \E fault \in {"none"} \cup CloseFaults \cup StartFaults :
       \E effect \in BOOLEAN :
       \E popup \in Popups :
        LET done   == start(Current, s, fault, effect, popup)
            closed == close(Current, fault, effect, popup)
        IN  /\ calls' = calls \o StartCalls(s, done, closed)
            /\ fbl3n_sess' = done.m.sess
            /\ main_wnd' = done.m.main_wnd
            /\ stat_bar' = done.m.stat_bar
            /\ open_tx' = done.m.open_tx
            /\ IF done.outcome = "ok"
               THEN /\ result' = <<>>
                    /\ exp_pc' = "for"
                    /\ UNCHANGED exp_error
               ELSE /\ exp_pc' = "raised"
                    /\ exp_error' = done.outcome
                    /\ UNCHANGED result
    /\ UNCHANGED <<rules, max_attempts, cocd_idx, nth, export_data>>
    /\ UNCHANGED history
    /\ UNCHANGED <<procVars, convVars, mainVars>>

\* for cocd in rules: the next country; nth = 0 and the first test of
\* while nth < max_attempts
NextCountry ==
    /\ exp_pc = "for"
    /\ cocd_idx < Len(rules)
    /\ cocd_idx' = cocd_idx + 1
    /\ nth' = 0
    /\ exp_pc' = IF nth' < max_attempts THEN "while" ELSE AfterLoop(nth')
    /\ UNCHANGED <<rules, max_attempts, export_data, result, exp_error, calls,
                   fbl3n_sess>>
    /\ UNCHANGED <<procVars, convVars, mainVars, fblVars>>

\* one pass of the while loop: fbl3n.export returns a text or raises
ExportAttempt ==
    /\ exp_pc = "while"
    /\ \E given \in ExportOutcomes : \E text \in ExportTexts :
        LET cocd    == rules[cocd_idx]
            outcome == export(Current, given).outcome
            ret     == IF outcome = "ok"
                    THEN Some([cocd    |-> cocd,
                               attempt |-> Len(ExportsOf(cocd)) + 1,
                               text    |-> text])
                    ELSE NA
        IN  /\ calls' = Append(calls, Call("export", "export_fbl3n_data", cocd, outcome, ret))
            /\ IF outcome = "ok"
               THEN \* else: nth = 0; break
                    /\ export_data' = ret
                    /\ nth' = NthAfterSuccess(nth)
                    /\ exp_pc' = AfterLoop(nth')
                    /\ exp_error' = AfterLoopError(nth')
               ELSE IF Retried(outcome)
               THEN \* nth += 1 and the next test of the loop condition
                    /\ nth' = nth + 1
                    /\ exp_pc' = IF nth' < max_attempts THEN "while" ELSE AfterLoop(nth')
                    /\ exp_error' = IF nth' < max_attempts THEN "none" ELSE AfterLoopError(nth')
                    /\ UNCHANGED export_data
               ELSE \* except fbl3n.DataExportError: raise; any other
                    \* exception is not caught
                    /\ exp_pc' = "raised"
                    /\ exp_error' = outcome
                    /\ UNCHANGED <<export_data, nth>>
    /\ UNCHANGED <<rules, max_attempts, cocd_idx, result, fbl3n_sess>>
    /\ UNCHANGED <<procVars, convVars, mainVars, fblVars>>

\* converted = processor.convert_data(data); result.append(converted).
\* When no attempt was made (max_attempts = 0) data is unbound: the
\* argument raises UnboundLocalError and convert_data is not called.
ConvertExported ==
    /\ exp_pc = "convert"
    /\ IF IsNA(export_data)
       THEN /\ exp_pc' = "raised"
            /\ exp_error' = "UnboundLocalError"
            /\ UNCHANGED <<calls, result>>
       ELSE LET text  == Get(export_data).text
                table == RowsConverted(StringTable(text))
                exc   == IF ReadCsvError(text) # "none" THEN ReadCsvError(text)
                         ELSE ConvertError(table)
            IN  /\ calls' = Append(calls, Call("convert_data", "export_fbl3n_data",
                                               rules[cocd_idx], exc, export_data))
                /\ IF exc # "none"
                   THEN /\ exp_pc' = "raised"
                        /\ exp_error' = exc
                        /\ UNCHANGED result
                   ELSE /\ exp_pc' = "for"
                        /\ result' = Append(result, ConvertedTable(table))
                        /\ UNCHANGED exp_error
    /\ UNCHANGED <<rules, max_attempts, cocd_idx, nth, export_data, fbl3n_sess>>
    /\ UNCHANGED <<procVars, convVars, mainVars, fblVars>>

\* after the last country: fbl3n.close() and return result; an exception
\* of close leaves export_fbl3n_data and nothing is returned
CloseFbl3n ==
    /\ exp_pc = "for"
    /\ cocd_idx = Len(rules)
    /\ \E fault \in {"none"} \cup CloseFaults :
       \E effect \in BOOLEAN :
       \E popup \in Popups :
        LET done == close(Current, fault, effect, popup)
        IN  /\ calls' = Append(calls, Call("close", "export_fbl3n_data", "",
                                           done.outcome, NA))
            /\ fbl3n_sess' = done.m.sess
            /\ main_wnd' = done.m.main_wnd
            /\ stat_bar' = done.m.stat_bar
            /\ open_tx' = done.m.open_tx
            /\ exp_pc' = IF done.outcome = "ok" THEN "returned" ELSE "raised"
            /\ exp_error' = IF done.outcome = "ok" THEN exp_error ELSE done.outcome
    /\ UNCHANGED <<rules, max_attempts, cocd_idx, nth, export_data, result>>
    /\ UNCHANGED history
    /\ UNCHANGED <<procVars, convVars, mainVars>>

NextExport ==
    \/ StartFbl3n
    \/ NextCountry
    \/ ExportAttempt
    \/ ConvertExported
    \/ CloseFbl3n

SpecExport == InitExport /\ [][NextExport]_vars

----------------------------------------------------------------------------
(* The state machine: app.main *)

DefaultMaxAttempts == 3

\* the cleanup is left out when the try statement ends in a return
CleanupOnSuccessOnly(p) == IF IsNA(p) THEN 1 ELSE 0

\* finally: the calls of disconnect_from_sap on leaving the try statement,
\* with a return statement pending or not
CleanupCalls(p) == 1

InitMain ==
    /\ main_pc = "logger"
    /\ sess = "unbound"
    /\ pending = NA
    /\ exit_code = NA
    /\ main_error = "none"
    /\ raised_in = "none"
    /\ connects = 0
    /\ disconnects = 0
    /\ ProcessIdle
    /\ ConvertIdle
    /\ ExportIdle
    /\ Fbl3nIdle

\* try: controller.configure_logger(...) except Exception: return 1
ConfigureLogger ==
    /\ main_pc = "logger"
    /\ \/ /\ main_pc' = "init"
          /\ UNCHANGED <<exit_code, raised_in>>
       \/ /\ main_pc' = "returned"
          /\ exit_code' = Some(1)
          /\ raised_in' = "logger"
    /\ UNCHANGED <<sess, pending, main_error, connects, disconnects>>
    /\ UNCHANGED <<procVars, convVars, exportVars, fblVars>>

\* load_app_config and load_processing_rules: an exception returns 2, no
\* active country returns 0, otherwise on to the connection
LoadConfiguration ==
    /\ main_pc = "init"
    /\ \/ /\ main_pc' = "returned"
          /\ exit_code' = Some(2)
          /\ raised_in' = "init"
          /\ UNCHANGED rules
       \/ \E n \in 0 .. MaxCountries :
              /\ rules' = ActiveRules(n)
              /\ IF Len(rules') = 0
                 THEN main_pc' = "returned" /\ exit_code' = Some(0)
                 ELSE main_pc' = "connect" /\ UNCHANGED exit_code
              /\ UNCHANGED raised_in
    /\ UNCHANGED <<sess, pending, main_error, connects, disconnects>>
    /\ UNCHANGED <<max_attempts, exp_pc, cocd_idx, nth, export_data, result,
                   exp_error, calls, fbl3n_sess>>
    /\ UNCHANGED <<procVars, convVars, fblVars>>

\* sess = controller.connect_to_sap(...): an exception returns 2; with the
\* session, controller.export_fbl3n_data(sess, layout, temp_dir, rules) is
\* called with the default max_attempts
ConnectToSap ==
    /\ main_pc = "connect"
    /\ \/ /\ main_pc' = "returned"
          /\ exit_code' = Some(2)
          /\ raised_in' = "init"
          /\ UNCHANGED <<sess, connects, exp_pc, max_attempts>>
       \/ /\ sess' = "sess"
          /\ connects' = connects + 1
          /\ main_pc' = "export"
          /\ exp_pc' = "start"
          /\ max_attempts' = DefaultMaxAttempts
          /\ UNCHANGED <<exit_code, raised_in>>
    /\ UNCHANGED <<pending, main_error, disconnects>>
    /\ UNCHANGED <<rules, cocd_idx, nth, export_data, result, exp_error, calls,
                   fbl3n_sess>>
    /\ UNCHANGED <<procVars, convVars, fblVars>>

\* export_fbl3n_data raised, or its argument cfg["data"]["fbl3n_layout"]
\* raised KeyError before the call was made: except Exception: return 3,
\* held back until the finally block has run
ExportRaised ==
    /\ main_pc = "export"
    /\ exp_pc \in {"raised", "start"}
    /\ main_pc' = "finally"
    /\ pending' = Some(3)
    /\ raised_in' = "processing"
    /\ UNCHANGED <<sess, exit_code, main_error, connects, disconnects>>
    /\ UNCHANGED <<procVars, convVars, exportVars, fblVars>>

\* controller.process_fbl3n_data(exported, ...) returns or raises
ProcessData ==
    /\ main_pc = "export"
    /\ exp_pc = "returned"
    /\ \/ /\ main_pc' = "report"
          /\ UNCHANGED <<pending, raised_in>>
       \/ /\ main_pc' = "finally"
          /\ pending' = Some(3)
          /\ raised_in' = "processing"
    /\ UNCHANGED <<sess, exit_code, main_error, connects, disconnects>>
    /\ UNCHANGED <<procVars, convVars, exportVars, fblVars>>

\* controller.report_output(...) returns or raises; main does not carry the
\* contents of the tables, what the call does to them is ReportOutputTables
ReportOutput ==
    /\ main_pc = "report"
    /\ main_pc' = "finally"
    /\ \/ UNCHANGED <<pending, raised_in>>
       \/ pending' = Some(3) /\ raised_in' = "processing"
    /\ UNCHANGED <<sess, exit_code, main_error, connects, disconnects>>
    /\ UNCHANGED <<procVars, convVars, exportVars, fblVars>>

\* finally: controller.disconnect_from_sap(sess).  When it returns, main
\* returns the pending 3 or goes on to return 0; when sap.disconnect
\* raises, the exception replaces the pending return and leaves main
Cleanup ==
    /\ main_pc = "finally"
    /\ disconnects' = disconnects + CleanupCalls(pending)
    /\ \/ /\ main_pc' = "returned"
          /\ exit_code' = IF IsNA(pending) THEN Some(0) ELSE pending
          /\ UNCHANGED main_error
       \/ /\ CleanupCalls(pending) > 0
          /\ main_pc' = "escaped"
          /\ main_error' = "com_error"
          /\ UNCHANGED exit_code
    /\ UNCHANGED <<sess, pending, raised_in, connects>>
    /\ UNCHANGED <<procVars, convVars, exportVars, fblVars>>

NextMain ==
    \/ ConfigureLogger
    \/ LoadConfiguration
    \/ ConnectToSap
    \/ StartFbl3n
    \/ NextCountry
    \/ ExportAttempt
    \/ ConvertExported
    \/ CloseFbl3n
    \/ ExportRaised
    \/ ProcessData
    \/ ReportOutput
    \/ Cleanup

SpecMain == InitMain /\ [][NextMain]_vars

----------------------------------------------------------------------------
(* The state machine: module fbl3n, called in any order *)

MaxCalls == 3

\* one entry of the history: the procedure, its argument, whether _sess
\* was set when it was called, and how it ended
Entry(fn, arg, done) ==
    [fn      |-> fn,
     arg     |-> arg,
     started |-> fbl3n_sess # "None",
     outcome |-> done.outcome,
     drove   |-> done.drove]

\* the variables of controller.export_fbl3n_data other than fbl3n._sess
exportLocals == <<rules, max_attempts, exp_pc, cocd_idx, nth, export_data,
                  result, exp_error, calls>>

InitFbl3n ==
    /\ Fbl3nIdle
    /\ ProcessIdle
    /\ ConvertIdle
    /\ ExportIdle
    /\ MainIdle

\* a caller calls start(sess)
CallStart ==
    /\ Len(history) < MaxCalls
    /\ \E s \in Sessions \cup {"None"} :
       \E fault \in {"none"} \cup CloseFaults \cup StartFaults :
       \E effect \in BOOLEAN :
       \E popup \in Popups :
        LET done == start(Current, s, fault, effect, popup)
        IN  /\ fbl3n_sess' = done.m.sess
            /\ main_wnd' = done.m.main_wnd
            /\ stat_bar' = done.m.stat_bar
            /\ open_tx' = done.m.open_tx
            /\ history' = Append(history, Entry("start", s, done))
    /\ UNCHANGED <<procVars, convVars, exportLocals, mainVars>>

\* a caller calls close()
CallClose ==
    /\ Len(history) < MaxCalls
    /\ \E fault \in {"none"} \cup CloseFaults :
       \E effect \in BOOLEAN :
       \E popup \in Popups :
        LET done == close(Current, fault, effect, popup)
        IN  /\ fbl3n_sess' = done.m.sess
            /\ main_wnd' = done.m.main_wnd
            /\ stat_bar' = done.m.stat_bar
            /\ open_tx' = done.m.open_tx
            /\ history' = Append(history, Entry("close", "", done))
    /\ UNCHANGED <<procVars, convVars, exportLocals, mainVars>>

\* a caller calls export(...)
CallExport ==
    /\ Len(history) < MaxCalls
    /\ \E outcome \in ExportOutcomes :
        LET done == export(Current, outcome)
        IN  /\ fbl3n_sess' = done.m.sess
            /\ main_wnd' = done.m.main_wnd
            /\ stat_bar' = done.m.stat_bar
            /\ open_tx' = done.m.open_tx
            /\ history' = Append(history, Entry("export", "", done))
    /\ UNCHANGED <<procVars, convVars, exportLocals, mainVars>>

NextFbl3n ==
    \/ CallStart
    \/ CallClose
    \/ CallExport

SpecFbl3n == InitFbl3n /\ [][NextFbl3n]_vars

----------------------------------------------------------------------------
(* Properties of compact_data *)

\* the line item has an identifier match in its text
HasTextMatch(r) == FindAll(r.Text) # <<>>

\* the first matched token of the text, as a number
FirstMatch(r) == DecimalValue(FindAll(r.Text)[1])

\* C1: every row of the compacted table whose Text contains an identifier
\* match has the first matched token as its Customer_Number, whatever its
\* Offsetting_Account.
C1_TextMatchWins ==
    \A i \in DOMAIN compacted :
        HasTextMatch(compacted[i])
            => compacted[i].Customer_Number = Some(FirstMatch(compacted[i]))

\* C2: every row of the compacted table without an identifier match and
\* with the cheque account as Offsetting_Account has no Customer_Number.
C2_ChequeStaysAbsent ==
    \A i \in DOMAIN compacted :
        (~HasTextMatch(compacted[i])
            /\ compacted[i].Offsetting_Account = ChequeAccount)
            => IsNA(compacted[i].Customer_Number)

\* C3: every row without an identifier match and with an Offsetting_Account
\* other than the cheque account (0 included) has the Offsetting_Account as
\* its Customer_Number, and Customer_Number is missing only on rows without
\* a match whose Offsetting_Account is the cheque account.
C3_FallbackToOffsettingAccount ==
    \A i \in DOMAIN compacted :
        /\ (~HasTextMatch(compacted[i])
               /\ compacted[i].Offsetting_Account # ChequeAccount)
               => compacted[i].Customer_Number = Some(compacted[i].Offsetting_Account)
        /\ IsNA(compacted[i].Customer_Number)
               => (~HasTextMatch(compacted[i])
                      /\ compacted[i].Offsetting_Account = ChequeAccount)

----------------------------------------------------------------------------
(* Properties of _aggregate_data *)

\* the grouping key of a line item of the compacted table
ItemKey(r) ==
    [Company_Code    |-> r.Company_Code,
     GL_Account      |-> r.GL_Account,
     Year            |-> r.Year,
     Period          |-> r.Period,
     Customer_Number |-> IF r.Customer_Number = NA THEN 0 ELSE Get(r.Customer_Number),
     Currency        |-> r.Currency]

\* the grouping key of a row of the aggregated table
RowKey(a) ==
    [Company_Code    |-> a.Company_Code,
     GL_Account      |-> a.GL_Account,
     Year            |-> a.Year,
     Period          |-> a.Period,
     Customer_Number |-> a.Customer_Number,
     Currency        |-> a.Currency]

ItemsOfKey(k) == {i \in DOMAIN compacted : ItemKey(compacted[i]) = k}

RowsOfKey(k) == {j \in DOMAIN aggregated : RowKey(aggregated[j]) = k}

RowsOfCell(k, b) == {j \in RowsOfKey(k) : aggregated[j].Deductions = b}

RECURSIVE CountSum(_)
CountSum(S) ==
    IF S = {} THEN 0
    ELSE LET j == CHOOSE x \in S : TRUE
         IN  aggregated[j].Deductions_Count + CountSum(S \ {j})

RECURSIVE TotalSum(_)
TotalSum(S) ==
    IF S = {} THEN 0
    ELSE LET j == CHOOSE x \in S : TRUE
         IN  aggregated[j].Deductions_Total + TotalSum(S \ {j})

RECURSIVE AmountSum(_)
AmountSum(S) ==
    IF S = {} THEN 0
    ELSE LET i == CHOOSE x \in S : TRUE
         IN  compacted[i].LC_Amount + AmountSum(S \ {i})

\* the bucket the specification gives an absolute amount
StatedBucket(a) ==
    IF a <= 30 THEN "under 30" ELSE IF a <= 50 THEN "30 - 50" ELSE "over 50"

\* C4: for every grouping key of the compacted table, the Deductions_Count
\* of the key's bucket rows sum to the number of line items with that key.
C4_CountsPartitionItems ==
    (pc = "done" /\ aggregated # <<>>) =>
        \A i \in DOMAIN compacted :
            LET k == ItemKey(compacted[i])
            IN  CountSum(RowsOfKey(k)) = Cardinality(ItemsOfKey(k))

\* C5: for every grouping key of the compacted table, the Deductions_Total
\* of the key's bucket rows sum to the sum of the signed LC_Amount of the
\* line items with that key.
C5_TotalsPreserveAmounts ==
    (pc = "done" /\ aggregated # <<>>) =>
        \A i \in DOMAIN compacted :
            LET k == ItemKey(compacted[i])
            IN  TotalSum(RowsOfKey(k)) = AmountSum(ItemsOfKey(k))

\* C6: every line item gets a bucket, decided by its absolute amount a:
\* "under 30" for 0 <= a <= 30, "30 - 50" for 30 < a <= 50, "over 50" for
\* every a > 50.
C6_EveryAmountHasItsBucket ==
    \A i \in DOMAIN deductions :
        deductions[i] = Some(StatedBucket(Abs(compacted[i].LC_Amount)))

\* C7 as stated: every grouping key with a line item has exactly three rows
\* in the aggregated table, one per bucket, a bucket without line item of
\* the key having count 0 and total 0, and no other key appears.
C7_ThreeRowsPerKey ==
    (pc = "done" /\ aggregated # <<>>) =>
        /\ \A i \in DOMAIN compacted : \A b \in Range(BucketLabels) :
               LET k == ItemKey(compacted[i])
               IN  /\ Cardinality(RowsOfCell(k, b)) = 1
                   /\ (\A n \in ItemsOfKey(k) :
                           StatedBucket(Abs(compacted[n].LC_Amount)) # b)
                          => \A j \in RowsOfCell(k, b) :
                                 /\ aggregated[j].Deductions_Count = 0
                                 /\ aggregated[j].Deductions_Total = 0
        /\ \A j \in DOMAIN aggregated : ItemsOfKey(RowKey(aggregated[j])) # {}

\* line items whose absolute amount lies in a bin: above 0, at most 999999
Binned == {i \in DOMAIN compacted :
              Abs(compacted[i].LC_Amount) > 0 /\ Abs(compacted[i].LC_Amount) <= 999999}

\* buckets that occur in the input, for whatever key
OccurringBuckets == {StatedBucket(Abs(compacted[i].LC_Amount)) : i \in Binned}

\* C7 as amended: every grouping key that has a line item with an absolute
\* amount in (0, 999999] has exactly one row for each bucket that occurs
\* anywhere in the input and no row for a bucket that occurs nowhere; a
\* row of a bucket without such a line item of the key has count 0 and
\* total 0; no other key appears.
C7_OneRowPerOccurringBucket ==
    pc = "done" =>
        /\ \A i \in Binned : \A b \in Range(BucketLabels) :
               LET k == ItemKey(compacted[i])
               IN  /\ Cardinality(RowsOfCell(k, b)) =
                          IF b \in OccurringBuckets THEN 1 ELSE 0
                   /\ (\A n \in ItemsOfKey(k) \cap Binned :
                           StatedBucket(Abs(compacted[n].LC_Amount)) # b)
                          => \A j \in RowsOfCell(k, b) :
                                 /\ aggregated[j].Deductions_Count = 0
                                 /\ aggregated[j].Deductions_Total = 0
        /\ \A j \in DOMAIN aggregated :
               ItemsOfKey(RowKey(aggregated[j])) \cap Binned # {}

\* C7 witness: an aggregated table with two of the three buckets only, in
\* which one key has a zero-filled row.
C7_Witness ==
    /\ pc = "done"
    /\ Cardinality({aggregated[j].Deductions : j \in DOMAIN aggregated}) = 2
    /\ \E j \in DOMAIN aggregated :
           /\ aggregated[j].Deductions_Count = 0
           /\ aggregated[j].Deductions_Total = 0

----------------------------------------------------------------------------
(* Properties of assign_customers *)

\* master rows that match an aggregated row at branch level
BranchMatches(r) ==
    {m \in Range(cust_data) : /\ m.branch_number = Some(r.Customer_Number)
                              /\ m.Company_Code = Some(r.Company_Code)}

\* master rows that match an aggregated row at head-office level
HeadOfficeMatches(r) ==
    {m \in Range(cust_data) : m.head_office = r.Customer_Number}

\* C8: in the returned table the Customer_Name of a row is the name of the
\* master row matching it at branch level when there is one, else the name
\* of the master row matching it at head-office level when there is one,
\* else missing.
C8_BranchNameBeforeHeadOfficeName ==
    pc = "done" =>
        \A j \in DOMAIN renamed :
            LET r == renamed[j]
            IN  IF BranchMatches(r) # {}
                THEN r.Customer_Name \in {m.Customer_Name : m \in BranchMatches(r)}
                ELSE IF HeadOfficeMatches(r) # {}
                THEN r.Customer_Name \in {m.Customer_Name : m \in HeadOfficeMatches(r)}
                ELSE IsNA(r.Customer_Name)

\* C8 witness: a returned row that matches one master row at branch level
\* and another, with a different name, at head-office level, and carries
\* the branch-level name.
C8_Witness ==
    /\ pc = "done"
    /\ \E j \in DOMAIN renamed :
           \E b \in BranchMatches(renamed[j]) : \E h \in HeadOfficeMatches(renamed[j]) :
               /\ ~IsNA(h.Customer_Name)
               /\ b.Customer_Name # h.Customer_Name
               /\ renamed[j].Customer_Name = b.Customer_Name

\* C9: for a non-empty table and any customer master the two joins keep the
\* number of rows, and assign_customers returns a table with as many rows
\* as the aggregated table.
C9_JoinsKeepRowCount ==
    /\ Len(renamed) = Len(aggregated)
    /\ error # "AssertionError"

\* C10: a returned table has as many rows as the aggregated table; when the
\* joins change the number of rows the call ends in the assertion error
\* and returns nothing.
C10_RowCountMismatchAborts ==
    /\ pc = "done" => Len(renamed) = Len(aggregated)
    /\ Len(renamed) # Len(aggregated) =>
           pc = "assign_raised" /\ error = "AssertionError"

\* C10 witness: the joins fanned out and the call ended in the assertion
\* error.
C10_Witness ==
    /\ pc = "assign_raised"
    /\ error = "AssertionError"
    /\ Len(renamed) > Len(aggregated)


\* head offices of the head offices file that no row of the branches file
\* refers to
HeadOfficesWithoutBranch ==
    {h.head_office : h \in Range(head_offs)} \ {b.head_office : b \in Range(branches)}

\* every row of the two customer files is found in the merged master
C11_EveryRecordInMaster ==
    pc = "done" =>
        /\ \A b \in Range(branches) : \E m \in Range(cust_data) :
               /\ m.head_office = b.head_office
               /\ m.branch_number = Some(b.branch_number)
               /\ m.Customer_Name = Some(b.Customer_Name)
        /\ \A h \in Range(head_offs) : \E m \in Range(cust_data) :
               /\ m.head_office = h.head_office
               /\ m.Company_Code = Some(h.Company_Code)

\* C11: every branch record and every head-office record appears in the
\* merged master, and a returned row whose Customer_Number is a head office
\* without branch rows has a Customer_Name.
C11_HeadOfficeWithoutBranchHasName ==
    /\ C11_EveryRecordInMaster
    /\ pc = "done" =>
           \A j \in DOMAIN renamed :
               renamed[j].Customer_Number \in HeadOfficesWithoutBranch
                   => ~IsNA(renamed[j].Customer_Name)


----------------------------------------------------------------------------
(* Empty input, the caller's table, the shape of the identifier *)

\* C12: compact_data given an empty list of batches ends in ValueError
\* without building a table, and assign_customers given an empty table
\* ends in ValueError with nothing aggregated and no customer master
\* loaded; neither returns a result.
C12_EmptyInputRaises ==
    [][/\ (pc = "exported" /\ Len(converted) = 0)
              => /\ pc' = "compact_raised"
                 /\ error' = "ValueError"
                 /\ compacted' = compacted
       /\ (pc = "compacted" /\ compacted = <<>>)
              => /\ pc' = "assign_raised"
                 /\ error' = "ValueError"
                 /\ UNCHANGED <<deductions, aggregated, cust_data, renamed>>]_vars

\* C12 witness: assign_customers was given the empty table that
\* compact_data made of a batch without rows, and raised.
C12_Witness ==
    /\ pc = "assign_raised"
    /\ error = "ValueError"
    /\ converted # <<>>
    /\ compacted = <<>>
    /\ aggregated = <<>>
    /\ cust_data = <<>>

\* C15: a call of assign_customers leaves the compacted table as it was;
\* a row without Customer_Number before the call is without one after it,
\* the 0 of the aggregation is not written into it.
C15_CompactedUnchangedByAggregation ==
    [][pc = "compacted"
          => /\ compacted' = compacted
             /\ \A i \in DOMAIN compacted :
                    IsNA(compacted[i].Customer_Number)
                        => IsNA(compacted'[i].Customer_Number)]_vars

\* C15 witness: the aggregation grouped a line item without
\* Customer_Number under customer 0 and the line item is still without one.
C15_Witness ==
    /\ pc = "done"
    /\ \E i \in DOMAIN compacted :
           /\ IsNA(compacted[i].Customer_Number)
           /\ \E j \in DOMAIN aggregated :
                  /\ aggregated[j].Customer_Number = 0
                  /\ RowKey(aggregated[j]) = ItemKey(compacted[i])

\* the token is seven decimal digits and begins with 1 or 4
WellFormedToken(tok) ==
    /\ Len(tok) = TokenTail + 1
    /\ \A j \in DOMAIN tok : IsDigit(tok[j])
    /\ tok[1] \in {"1", "4"}

\* C16: compact_data fails on no Text, and the token a Customer_Number is
\* taken from is seven decimal digits beginning with 1 or 4, after a
\* non-digit and not before a digit.
C16_TokenIsSevenDigits ==
    /\ pc = "compact_raised" => Len(converted) = 0
    /\ \A i \in DOMAIN compacted :
           LET t == compacted[i].Text
           IN  HasTextMatch(compacted[i])
                   => /\ WellFormedToken(FindAll(t)[1])
                      /\ \E n \in 2 .. Len(t) :
                             /\ SubSeq(t, n, n + TokenTail) = FindAll(t)[1]
                             /\ ~IsDigit(t[n - 1])
                             /\ (n + TokenTail + 1 <= Len(t))
                                    => ~IsDigit(t[n + TokenTail + 1])


----------------------------------------------------------------------------
(* Properties of convert_data and _parse_amounts *)

\* the rows of the csv text, each the fields as written
RawRows == CsvRows(exp_data)

\* a field of a row as written, empty when the row has no such field
RawField(i, name) ==
    LET n == Col(name) + LeadingCols(RawRows)
    IN  IF n <= Len(RawRows[i]) THEN RawRows[i][n] ELSE <<>>

\* a text of decimal digits
IsNumeral(t) == t # <<>> /\ \A n \in DOMAIN t : IsDigit(t[n])

\* the amount text without its grouping points and without the sign it
\* ends with
StatedMagnitude(t) ==
    LET u == SelectSeq(Strip(t), LAMBDA c : c # ".")
    IN  IF u # <<>> /\ u[Len(u)] = "-" THEN SubSeq(u, 1, Len(u) - 1) ELSE u

\* digits around at most one decimal comma
IsStatedAmount(t) ==
    LET m == StatedMagnitude(t)
    IN  /\ \E n \in DOMAIN m : IsDigit(m[n])
        /\ \A n \in DOMAIN m : IsDigit(m[n]) \/ m[n] = ","
        /\ Cardinality({n \in DOMAIN m : m[n] = ","}) <= 1

\* the number the specification gives an amount text: the magnitude read
\* with the comma as decimal point, negated when the text ends with "-"
StatedValue(t) ==
    LET m     == StatedMagnitude(t)
        comma == {n \in DOMAIN m : m[n] = ","}
        frac  == IF comma = {} THEN 0 ELSE Len(m) - Min(comma)
        mag   == DecimalValue(SelectSeq(m, IsDigit))
        neg   == Strip(t)[Len(Strip(t))] = "-"
    IN  Decimal(IF neg THEN -mag ELSE mag, frac)

\* the text cannot be read as a number in any notation: it has no digit,
\* or a character that is no part of a number
IsNoNumber(t) ==
    \/ DigitsOf(t) = <<>>
    \/ \E n \in DOMAIN t :
           t[n] \notin Digits \cup {".", ",", "-", "+", "e", "E", " "}

\* the row has an amount, account, year or period that is no number
BadRow(i) ==
    \/ IsNoNumber(RawField(i, "LC_Amount"))
    \/ \E c \in {"GL_Account", "Offsetting_Account", "Year", "Period"} :
           ~IsNumeral(Strip(RawField(i, c)))

\* C13: when a data line of the exported text has an amount, account
\* number, year or period that is no number, convert_data ends in an error
\* and returns no table; a returned table has one row for every data line
\* and no data line is bad.
C13_AllOrNothing ==
    conv_pc \in {"returned", "raised"} =>
        /\ (\E i \in DOMAIN RawRows : BadRow(i))
               => /\ conv_pc = "raised"
                  /\ conv_error # "none"
                  /\ conv_table = <<>>
        /\ conv_pc = "returned"
               => /\ Len(conv_table) = Len(RawRows)
                  /\ \A i \in DOMAIN RawRows : ~BadRow(i)

\* a call ends in an error or in a table with one row for every row of
\* the text, never in a table of some of the rows
C13_NoPartialTable ==
    /\ conv_pc = "raised" => conv_table = <<>> /\ conv_error # "none"
    /\ conv_pc = "returned" => Len(conv_table) = Len(RawRows)

\* C14: _parse_amounts gives an amount text the number read from it
\* without the grouping points and with the comma as decimal point,
\* negative exactly when the text ends with "-": 1.234,56 is 1234.56,
\* 50,00- is -50 and 0,00 is 0; an amount without "-" at its end is not
\* negative; no amount of this form makes the conversion fail.
C14_AmountsParsed ==
    /\ ParseAmounts(Strip(AmtThousands)) = [mant |-> 123456, exp |-> 2]
    /\ ParseAmounts(Strip(AmtNegative)) = [mant |-> -50, exp |-> 0]
    /\ ParseAmounts(Strip(AmtZero)) = [mant |-> 0, exp |-> 0]
    /\ conv_pc = "raised" =>
           \/ conv_error = "ParserError"
           \/ \E i \in DOMAIN RawRows : BadRow(i)
    /\ conv_pc = "returned" =>
           \A i \in DOMAIN conv_table :
               LET text   == RawField(i, "LC_Amount")
                   amount == Get(conv_table[i][Col("LC_Amount")])
               IN  IsStatedAmount(text)
                       => /\ conv_table[i][Col("LC_Amount")] # NA
                          /\ amount = StatedValue(text)
                          /\ ~EndsWith(Strip(text), "-") => amount.mant >= 0
                          /\ Abs(amount.mant) = Abs(StatedValue(text).mant)

\* C14 witness: a returned table with the amounts 1234.56 and -50.
C14_Witness ==
    /\ conv_pc = "returned"
    /\ \E i, j \in DOMAIN conv_table :
           /\ conv_table[i][Col("LC_Amount")] = Some([mant |-> 123456, exp |-> 2])
           /\ conv_table[j][Col("LC_Amount")] = Some([mant |-> -50, exp |-> 0])


----------------------------------------------------------------------------
(* Properties of export_fbl3n_data *)

ConnectionLost == "SapConnectionLostError"

\* every call of fbl3n.export for the country so far lost the connection
AllLost(c) == \A i \in DOMAIN ExportsOf(c) : ExportsOf(c)[i].outcome = ConnectionLost

\* C17: with max_attempts >= 1, fbl3n.export is called at most
\* max_attempts times for a country; inside the loop the counter is the
\* number of lost attempts of the country of the loop alone, so it starts
\* at 0 for every country; an export that returns is followed by the
\* conversion of the text it returned; the call ends in RuntimeError
\* exactly when max_attempts attempts of one country in a row lost the
\* connection.
C17_RetriesBounded ==
    max_attempts >= 1 =>
        /\ \A n \in DOMAIN rules : Len(ExportsOf(rules[n])) <= max_attempts
        /\ exp_pc = "while"
               => /\ nth < max_attempts
                  /\ nth = Len(ExportsOf(rules[cocd_idx]))
                  /\ AllLost(rules[cocd_idx])
        /\ (calls # <<>> /\ calls[Len(calls)].fn = "export"
                /\ calls[Len(calls)].outcome = "ok")
               => /\ exp_pc = "convert"
                  /\ export_data = calls[Len(calls)].data
        /\ \A k \in DOMAIN calls :
               calls[k].fn = "convert_data"
                   => /\ calls[k - 1].fn = "export"
                      /\ calls[k - 1].outcome = "ok"
                      /\ calls[k - 1].cocd = calls[k].cocd
                      /\ calls[k - 1].data = calls[k].data
        /\ exp_error = "RuntimeError"
               <=> \E n \in DOMAIN rules :
                       /\ Len(ExportsOf(rules[n])) = max_attempts
                       /\ AllLost(rules[n])
        /\ exp_error = "RuntimeError" => exp_pc = "raised"

\* C17 witness: the first country was exported at the second attempt, the
\* second country lost the connection at every one of its max_attempts
\* attempts and the call ended in RuntimeError.
C17_Witness ==
    /\ max_attempts = MaxAttempts
    /\ exp_pc = "raised"
    /\ exp_error = "RuntimeError"
    /\ cocd_idx = 2
    /\ Len(ExportsOf(rules[1])) = 2
    /\ Len(ExportsOf(rules[2])) = max_attempts
    /\ Len(result) = 1

\* the calls of fbl3n.close made by export_fbl3n_data itself
OwnCloses == SelectSeq(calls, LAMBDA e : e.fn = "close" /\ e.by = "export_fbl3n_data")

\* C18: an exception of fbl3n.export other than the lost connection ends
\* the call at once: the failed export is the last call made, no country
\* is exported after it and nothing is returned; a lost connection is
\* followed by another attempt for the same country or by the end of the
\* call; export_fbl3n_data calls fbl3n.close once when it returns, after
\* every country was converted, and not when it raises.
C18_OnlyConnectionLossRetried ==
    /\ \A k \in DOMAIN calls :
           (calls[k].fn = "export" /\ calls[k].outcome \notin {"ok", ConnectionLost})
               => /\ k = Len(calls)
                  /\ exp_pc = "raised"
                  /\ exp_error = calls[k].outcome
    /\ \A k \in DOMAIN calls :
           (calls[k].fn = "export" /\ calls[k].outcome = ConnectionLost /\ k < Len(calls))
               => /\ calls[k + 1].fn = "export"
                  /\ calls[k + 1].cocd = calls[k].cocd
    /\ exp_pc = "returned"
           => /\ Len(OwnCloses) = 1
              /\ calls[Len(calls)].fn = "close"
              /\ Len(result) = Len(rules)
              /\ exp_error = "none"
              /\ fbl3n_sess = "None"
    /\ exp_pc # "returned" => Len(OwnCloses) = 0
    /\ exp_pc = "raised" => exp_error # "none"

\* C18, amended: as above, but fbl3n.close is called once after every
\* country was converted whether that call returns or raises:
\* export_fbl3n_data returns when close returned and raises the exception
\* of close otherwise; it calls close at no other point, so not when start,
\* an export or a conversion raised.
C18_CloseOnlyAfterLastCountry ==
    /\ \A k \in DOMAIN calls :
           (calls[k].fn = "export" /\ calls[k].outcome \notin {"ok", ConnectionLost})
               => /\ k = Len(calls)
                  /\ exp_pc = "raised"
                  /\ exp_error = calls[k].outcome
    /\ \A k \in DOMAIN calls :
           (calls[k].fn = "export" /\ calls[k].outcome = ConnectionLost /\ k < Len(calls))
               => /\ calls[k + 1].fn = "export"
                  /\ calls[k + 1].cocd = calls[k].cocd
    /\ Len(OwnCloses) <= 1
    /\ Len(OwnCloses) = 1
           => /\ calls[Len(calls)] = OwnCloses[1]
              /\ Len(result) = Len(rules)
              /\ cocd_idx = Len(rules)
              /\ IF OwnCloses[1].outcome = "ok"
                 THEN exp_pc = "returned" /\ exp_error = "none"
                 ELSE exp_pc = "raised" /\ exp_error = OwnCloses[1].outcome
    /\ exp_pc = "returned" => Len(OwnCloses) = 1
    /\ exp_pc = "raised" => exp_error # "none"

\* C18 witness of the amendment: every country was converted, the close
\* that follows raised and so did export_fbl3n_data.
C18_CloseRaised ==
    /\ exp_pc = "raised"
    /\ Len(rules) = 2
    /\ Len(result) = 2
    /\ Len(OwnCloses) = 1
    /\ exp_error = ComError

\* C18 witness: the first of two countries was converted, the export of
\* the second ended in DataExportError at its first attempt and the call
\* raised without closing the transaction.
C18_Witness ==
    /\ exp_pc = "raised"
    /\ exp_error = "DataExportError"
    /\ Len(rules) = 2
    /\ cocd_idx = 2
    /\ Len(result) = 1
    /\ Len(ExportsOf(rules[2])) = 1
    /\ Len(OwnCloses) = 0


----------------------------------------------------------------------------
(* Properties of main *)

\* main is over: it returned or an exception left it
MainEnded == main_pc \in {"returned", "escaped"}

\* C19: disconnect_from_sap is called once in every run of main in which
\* connect_to_sap returned a session, whether the export, the processing
\* and the reporting went through or raised, and is not called in a run
\* that ended before: logger or initialization failed, or no country is
\* active.
C19_DisconnectOncePerConnection ==
    /\ disconnects <= connects
    /\ connects <= 1
    /\ MainEnded => disconnects = connects
    /\ (MainEnded /\ sess = "sess") => disconnects = 1
    /\ (MainEnded /\ raised_in \in {"logger", "init"}) => disconnects = 0
    /\ (MainEnded /\ rules = <<>>) => disconnects = 0

\* C19 witness: the export gave up after the lost connections, main
\* returned 3 and disconnect_from_sap was called once.
C19_Witness ==
    /\ main_pc = "returned"
    /\ exit_code = Some(3)
    /\ exp_error = "RuntimeError"
    /\ connects = 1
    /\ disconnects = 1

\* the code the docstring of main gives a run
StatedCode ==
    IF raised_in = "logger" THEN 1
    ELSE IF raised_in = "init" THEN 2
    ELSE IF raised_in = "processing" THEN 3
    ELSE 0

\* C20: main ends by returning 1 when the logger configuration raised, 2
\* when the initialization raised, 3 when export, processing or reporting
\* raised and 0 otherwise, and no exception leaves main, the cleanup
\* included.
C20_ReturnsOneOfFourCodes ==
    /\ main_pc # "escaped"
    /\ main_error = "none"
    /\ main_pc = "returned" => exit_code = Some(StatedCode)

(***************************************************************************)
(* C21: the started state of module fbl3n                                  *)
(***************************************************************************)

\* the module is in the started state
Started == fbl3n_sess # "None"

\* a start that returned
SuccessfulStart(e) == e.fn = "start" /\ e.outcome = "ok"

\* a close that returned
SuccessfulClose(e) == e.fn = "close" /\ e.outcome = "ok"

\* the most recent start that returned has not been followed by a close
\* that returned
StartNotClosed ==
    \E i \in 1 .. Len(history) :
        /\ SuccessfulStart(history[i])
        /\ \A j \in i + 1 .. Len(history) :
            /\ ~SuccessfulStart(history[j])
            /\ ~SuccessfulClose(history[j])

\* the module is started exactly when the last successful start is not
\* followed by a close
C21_StartedIffStartNotClosed == Started <=> StartNotClosed

\* export called while not started raises UninitializedModuleError
\* without calling into SAP
C21_ExportNeedsStart ==
    \A i \in 1 .. Len(history) :
        (history[i].fn = "export" /\ ~history[i].started)
            => /\ history[i].outcome = "UninitializedModuleError"
               /\ ~history[i].drove

\* close called while not started returns without calling into SAP
C21_CloseWhenNotStartedIsNoOp ==
    \A i \in 1 .. Len(history) :
        (history[i].fn = "close" /\ ~history[i].started)
            => /\ history[i].outcome = "ok"
               /\ ~history[i].drove

\* at most one transaction is open, and after a start that returned it is
\* the one of the session handed to that start
C21_AtMostOneTransaction ==
    /\ Cardinality(open_tx) <= 1
    /\ (history # <<>> /\ SuccessfulStart(history[Len(history)]))
            => open_tx = {history[Len(history)].arg}

\* C21: for any sequence of start, close and export calls the module is in
\* the started state exactly when the most recent successful start has not
\* been followed by a close: export while not started raises
\* UninitializedModuleError without driving SAP, close while not started
\* does nothing, and start while started ends the running transaction
\* before starting the new one, so at most one transaction is open.
C21_StartedTracksStartAndClose ==
    /\ C21_StartedIffStartNotClosed
    /\ C21_ExportNeedsStart
    /\ C21_CloseWhenNotStartedIsNoOp
    /\ C21_AtMostOneTransaction

=============================================================================
